---- MODULE Spec2Model ----
(***************************************************************************)
(* The Go lessons of labs/gomistakes/lesson: goroutines that observe a     *)
(* context (goroutine.go, time.go, the ChannelLeak file) and the caches    *)
(* of map.go.                                                              *)
(*                                                                         *)
(* A goroutine blocked in a select is one position ("select"); each case   *)
(* of the select, together with the straight-line body of that case, is    *)
(* one action, enabled when the case's channel operation can proceed.      *)
(* When several cases are ready Go picks one of them, so they are          *)
(* alternatives of the next-state relation.                                *)
(***************************************************************************)
EXTENDS Integers, FiniteSets, Sequences, TLC

\* ------------------------------------------------------------- bounds
NumWorkers == 2   \* goroutines that may be spawned against the shared context
MaxLogs == 2      \* the count of lines a goroutine has printed saturates here
MaxCancels == 2   \* the count of cancellation signals a context received saturates here

\* ---------------------------------------------------------- constants
GoroutineLeakWithContext == 1
ChannelLeak == 2
TimerLeak == 3

Funcs == {GoroutineLeakWithContext, ChannelLeak, TimerLeak}
Workers == 1..NumWorkers
\* Every goroutine of the model: a lesson function's own goroutine has the
\* function's number.
Goroutines == Funcs \cup Workers
Ctxs == Funcs
BadFuncs == {ChannelLeak, TimerLeak}

VARIABLES
    ctxDone,      \* [Ctxs -> BOOLEAN]: ctx.Done() is closed
    ctxDeadline,  \* [Ctxs -> BOOLEAN]: the context has a deadline still pending
    opc,          \* [Funcs -> STRING]: position of the lesson function (source line)
    wpc,          \* [Goroutines -> STRING]: "unborn", "start", "select", "returned"
    wkind,        \* [Goroutines -> Funcs]: which function's 'Good' goroutine body it runs
    wctx,         \* [Goroutines -> Ctxs]: the context the goroutine captured
    tickerOn,     \* [Goroutines -> BOOLEAN]: the goroutine's ticker is running
    tickC,        \* [Goroutines -> 0..1]: ticks buffered in ticker.C (capacity 1)
    timerArmed,   \* [Goroutines -> BOOLEAN]: the timer it waits on has not fired yet
    timerC,       \* [Goroutines -> 0..1]: fires buffered in timer.C (capacity 1)
    chSender,     \* [Goroutines -> BOOLEAN]: a sender is blocked on the goroutine's ch
    logged,       \* [Goroutines -> 0..MaxLogs]: lines printed so far (saturating)
    ctxCancels    \* [Ctxs -> 0..MaxCancels]: history, cancel() calls and deadline expiries so far

\* The first ('Bad') goroutines of ChannelLeak and TimerLeak, which capture the
\* variable (ch, timer) that the function assigns again later.
VARIABLES
    cur,        \* [BadFuncs -> {"first", "second"}]: the object the variable holds
    bpc,        \* [BadFuncs -> STRING]: "unborn", "read", "wait", "returned"
    bobj,       \* [BadFuncs -> {"first", "second"}]: the object the goroutine waits on
    hourArmed,  \* the one-hour timer has not fired yet
    hourC       \* fires buffered in the one-hour timer's channel

ctxVars == <<ctxDone, ctxDeadline, ctxCancels>>
workerVars == <<wpc, wkind, wctx, tickerOn, tickC, timerArmed, timerC, chSender, logged>>
badVars == <<cur, bpc, bobj, hourArmed, hourC>>
lessonVars == <<ctxVars, opc, workerVars, badVars>>

\* The caches of map.go.
VARIABLES
    now,        \* time.Now(), monotonic, in minutes
    ttl,        \* BetterCache.ttl
    items,      \* BetterCache.items: a map from keys to CacheItem
    mu,         \* BetterCache's embedded RWMutex: its write holder
    plain,      \* Cache.items: a map from keys to values
    cmu,        \* Cache's embedded RWMutex: its write holder
    spc,        \* [Setters -> STRING]: "idle", "Lock", "write", "Unlock"
    starget,    \* "Cache" or "BetterCache": the cache whose Set is being called
    skey,       \* [Setters -> Keys]: Set's key
    sval,       \* [Setters -> Values]: Set's value
    swpc,       \* [Sweepers -> STRING]: "none", "recv", "Lock", "now", "range", "body", "Unlock"
    nextTick,   \* [Sweepers -> Nat]: when the sweeper's ticker fires next
    swtickC,    \* [Sweepers -> 0..1]: ticks buffered in the sweeper's ticker.C
    swnow,      \* [Sweepers -> Times]: the pass's local now
    swtodo,     \* [Sweepers -> SUBSET Keys]: keys the pass's range has yet to produce
    swk,        \* [Sweepers -> Keys]: the range's k
    swv,        \* [Sweepers -> Times]: the range's v.timestamp
    \* history, for stating the properties
    snap,       \* items as they were when the pass in progress read now
    lastPass,   \* the now of the last pass whose loop has ended, -1 before the first
    serial,     \* items as the operations applied one at a time, in lock order, give it
    cserial,    \* the same for Cache.items
    shad        \* [Setters -> BOOLEAN]: the write just made replaced an older entry of the key

setVars == <<spc, skey, sval, shad>>
sweepVars == <<swpc, nextTick, swtickC, swnow, swtodo, swk, swv, snap, lastPass>>
cacheVars == <<now, ttl, starget, items, mu, plain, cmu, serial, cserial, setVars, sweepVars>>

\* HTTPBodyLeak.
VARIABLES
    hpc,      \* position of HTTPBodyLeak (source line), or "returned"
    hret,     \* what it returned: "none" yet, "nil", or the error of a call
    hlog,     \* history: the outcomes (TRUE: success) of the calls made, in order
    hbody,    \* [1..2 -> STRING]: each response's Body: "none", "open", "closed"
    hcloses   \* [1..2 -> Nat]: history, calls of Close on each Body

\* DeferInLoopLeak.
VARIABLES
    dpc,      \* "loop", "open", "write", "close", "returned"
    di,       \* the loop variable i
    dopen,    \* file handles open now
    dopened,  \* history: handles opened so far
    dclosed,  \* history: handles closed so far
    dfailed,  \* history: an os.OpenFile has failed
    dwfailed  \* history: a WriteString has failed

\* The global betterCache (a sync.Map) and its cleanup.
VARIABLES
    gstore,   \* the keys stored in betterCache
    gsets,    \* calls of SetGlobalCache made so far
    gswpc,    \* the goroutine of cleanup: "none", "recv", "range"
    gtickC,   \* ticks buffered in its ticker.C
    gtodo,    \* keys its Range has yet to visit
    gkey,     \* the key of the last GetGlobalCache
    gres      \* its outcome: "none" yet, "object", "nil" or "panic"

\* GoroutineLeak and its goroutine, which appends to the package's leakSlice.
VARIABLES
    glopc,       \* position of GoroutineLeak (source line)
    glpc,        \* its goroutine: "unborn", "start", "select", "returned"
    glTickerOn,  \* the goroutine's ticker is running
    glTickC,     \* ticks buffered in its ticker.C (capacity 1)
    leakLen      \* len(leakSlice)

httpVars == <<hpc, hret, hlog, hbody, hcloses>>
deferVars == <<dpc, di, dopen, dopened, dclosed, dfailed, dwfailed>>
globalVars == <<gstore, gsets, gswpc, gtickC, gtodo, gkey, gres>>
\* The loan package: one Loan that callers hold a pointer to, and the
\* LoanRepository given to the LoanService.
VARIABLES
    loan,     \* the Loan: [ID, Amount, Status, InterestRate, CustomerID, CreatedAt]
    lcall,    \* history: the last call made, [op, ctx]
    lres,     \* what that call returned: an error ("nil" for none), or the interest
    repoLog   \* history: the calls the repository has received, in order: [op, ctx, loan, ret]

\* main of labs/i-loan.
VARIABLES
    pkg,      \* the loan package main is built with: "original" or "refactored"
    mpc,      \* position of main (source line), or "exit"
    mloan,    \* main's variable loan
    mout      \* the lines printed so far

\* The loan application of the slides, before (LoanApp) and after
\* (LoanApplication) the refactoring: the same five field values.
VARIABLES
    app,      \* [id, amt, dur, inc, cr]
    ares      \* history: the last call made on it and its results, [op, ok, err]

leakVars == <<glopc, glpc, glTickerOn, glTickC, leakLen>>
loanVars == <<loan, lcall, lres, repoLog>>
mainVars == <<pkg, mpc, mloan, mout, app, ares>>
restVars == <<leakVars, loanVars, mainVars>>
moreVars == <<httpVars, deferVars, globalVars, restVars>>
vars == <<lessonVars, cacheVars, moreVars>>

Bump(n) == IF n < MaxLogs THEN n + 1 ELSE MaxLogs

\* ------------------------------------------------------------ context
\* cancel(): closes Done and releases the deadline timer; calling it again
\* changes nothing.
CancelReopens(c) ==
    /\ ctxDone' = [ctxDone EXCEPT ![c] = ~@]
    /\ ctxDeadline' = [ctxDeadline EXCEPT ![c] = FALSE]
    /\ ctxCancels' = [ctxCancels EXCEPT ![c] = IF @ < MaxCancels THEN @ + 1 ELSE @]

Cancel(c) ==
    /\ ctxDone' = [ctxDone EXCEPT ![c] = TRUE]
    /\ ctxDeadline' = [ctxDeadline EXCEPT ![c] = FALSE]
    /\ ctxCancels' = [ctxCancels EXCEPT ![c] = IF @ < MaxCancels THEN @ + 1 ELSE @]

\* A deadline that releases its timer without closing Done.
DeadlineFireSilent(c) ==
    /\ ctxDeadline[c]
    /\ ctxDeadline' = [ctxDeadline EXCEPT ![c] = FALSE]
    /\ UNCHANGED <<cacheVars, moreVars, badVars, ctxDone, ctxCancels, opc, workerVars>>

\* The deadline of context.WithTimeout passes.
DeadlineFire(c) ==
    /\ ctxDeadline[c]
    /\ Cancel(c)
    /\ UNCHANGED <<cacheVars, moreVars, badVars, opc, workerVars>>

\* --------------------------------------------------- 'Good' goroutines
\* The go statement: the closure of function k starts running, capturing ctx c.
\* The ticker goroutine first creates its ticker; the others go to their select.
GoWorker(w, k, c, armed, sender) ==
    /\ wpc[w] = "unborn"
    /\ wpc' = [wpc EXCEPT ![w] = IF k = GoroutineLeakWithContext THEN "start" ELSE "select"]
    /\ wkind' = [wkind EXCEPT ![w] = k]
    /\ wctx' = [wctx EXCEPT ![w] = c]
    /\ timerArmed' = [timerArmed EXCEPT ![w] = armed]
    /\ chSender' = [chSender EXCEPT ![w] = sender]
    /\ UNCHANGED <<tickerOn, tickC, timerC, logged>>

\* ticker := time.NewTicker(time.Second); defer ticker.Stop()
WorkerStart(w) ==
    /\ wpc[w] = "start"
    /\ wpc' = [wpc EXCEPT ![w] = "select"]
    /\ tickerOn' = [tickerOn EXCEPT ![w] = TRUE]
    /\ UNCHANGED <<cacheVars, moreVars, badVars, ctxVars, opc, wkind, wctx, tickC, timerArmed, timerC, chSender, logged>>

\* The runtime sends a tick; a tick that finds the buffer full is dropped.
TickerFire(w) ==
    /\ tickerOn[w]
    /\ tickC[w] = 0
    /\ tickC' = [tickC EXCEPT ![w] = 1]
    /\ UNCHANGED <<cacheVars, moreVars, badVars, ctxVars, opc, wpc, wkind, wctx, tickerOn, timerArmed, timerC, chSender, logged>>

\* The timer fires, once.
TimerFire(w) ==
    /\ timerArmed[w]
    /\ timerArmed' = [timerArmed EXCEPT ![w] = FALSE]
    /\ timerC' = [timerC EXCEPT ![w] = 1]
    /\ UNCHANGED <<cacheVars, moreVars, badVars, ctxVars, opc, wpc, wkind, wctx, tickerOn, tickC, chSender, logged>>

\* case <-ticker.C: log.Println("Working...")
RecvTick(w) ==
    /\ wpc[w] = "select"
    /\ wkind[w] = GoroutineLeakWithContext
    /\ tickC[w] = 1
    /\ tickC' = [tickC EXCEPT ![w] = 0]
    /\ logged' = [logged EXCEPT ![w] = Bump(@)]
    /\ UNCHANGED <<cacheVars, moreVars, badVars, ctxVars, opc, wpc, wkind, wctx, tickerOn, timerArmed, timerC, chSender>>

\* case <-timer.C: fmt.Println("Good:Done!")
RecvTimer(w) ==
    /\ wpc[w] = "select"
    /\ wkind[w] = TimerLeak
    /\ timerC[w] = 1
    /\ timerC' = [timerC EXCEPT ![w] = 0]
    /\ logged' = [logged EXCEPT ![w] = Bump(@)]
    /\ UNCHANGED <<cacheVars, moreVars, badVars, ctxVars, opc, wpc, wkind, wctx, tickerOn, tickC, timerArmed, chSender>>

\* case val := <-ch: fmt.Println(val), and the closure ends.
RecvVal(w) ==
    /\ wpc[w] = "select"
    /\ wkind[w] = ChannelLeak
    /\ chSender[w]
    /\ chSender' = [chSender EXCEPT ![w] = FALSE]
    /\ logged' = [logged EXCEPT ![w] = Bump(@)]
    /\ wpc' = [wpc EXCEPT ![w] = "returned"]
    /\ UNCHANGED <<cacheVars, moreVars, badVars, ctxVars, opc, wkind, wctx, tickerOn, tickC, timerArmed, timerC>>

\* A 'case <-ctx.Done(): break' leaves only the select: the goroutine stays.
RecvDoneBreak(w) ==
    /\ wpc[w] = "select"
    /\ ctxDone[wctx[w]]
    /\ UNCHANGED <<cacheVars, moreVars, badVars, ctxVars, opc, workerVars>>

\* A return without the deferred ticker.Stop().
RecvDoneNoStop(w) ==
    /\ wpc[w] = "select"
    /\ ctxDone[wctx[w]]
    /\ wpc' = [wpc EXCEPT ![w] = "returned"]
    /\ UNCHANGED <<cacheVars, moreVars, badVars, ctxVars, opc, wkind, wctx, tickerOn, tickC, timerArmed, timerC, chSender, logged>>

\* case <-ctx.Done(): return, which runs the deferred ticker.Stop() of the
\* ticker goroutine.  Stop does not drain ticker.C.
RecvDone(w) ==
    /\ wpc[w] = "select"
    /\ ctxDone[wctx[w]]
    /\ wpc' = [wpc EXCEPT ![w] = "returned"]
    /\ tickerOn' = [tickerOn EXCEPT ![w] = FALSE]
    /\ UNCHANGED <<cacheVars, moreVars, badVars, ctxVars, opc, wkind, wctx, tickC, timerArmed, timerC, chSender, logged>>

WorkerStep(w) ==
    \/ WorkerStart(w)
    \/ RecvTick(w)
    \/ RecvTimer(w)
    \/ RecvVal(w)
    \/ RecvDone(w)

\* ------------------------------------------------ the lesson functions
\* GoroutineLeakWithContext: ctx, cancel := context.WithCancel(...); defer cancel()
GLWC_Ctx ==
    /\ opc[GoroutineLeakWithContext] = "L45"
    /\ opc' = [opc EXCEPT ![GoroutineLeakWithContext] = "L48"]
    /\ ctxDone' = [ctxDone EXCEPT ![GoroutineLeakWithContext] = FALSE]
    /\ UNCHANGED <<cacheVars, moreVars, badVars, ctxDeadline, ctxCancels, workerVars>>

\* go func() {...}(); the function then blocks in select {} for ever, so its
\* deferred cancel() has no step.
GLWC_Go ==
    /\ opc[GoroutineLeakWithContext] = "L48"
    /\ opc' = [opc EXCEPT ![GoroutineLeakWithContext] = "L61"]
    /\ GoWorker(GoroutineLeakWithContext, GoroutineLeakWithContext,
                GoroutineLeakWithContext, FALSE, FALSE)
    /\ UNCHANGED <<cacheVars, moreVars, badVars, ctxVars>>

\* ChannelLeak: ch := make(chan int); go func() { val := <-ch; ... }()
CL_BadGo ==
    /\ opc[ChannelLeak] = "L49"
    /\ opc' = [opc EXCEPT ![ChannelLeak] = "L56"]
    /\ bpc' = [bpc EXCEPT ![ChannelLeak] = "read"]
    /\ UNCHANGED <<cacheVars, moreVars, ctxVars, workerVars, cur, bobj, hourArmed, hourC>>

\* ChannelLeak: ctx, cancel := context.WithTimeout(..., time.Second); defer cancel()
CL_Ctx ==
    /\ opc[ChannelLeak] = "L56"
    /\ opc' = [opc EXCEPT ![ChannelLeak] = "L60"]
    /\ ctxDone' = [ctxDone EXCEPT ![ChannelLeak] = FALSE]
    /\ ctxDeadline' = [ctxDeadline EXCEPT ![ChannelLeak] = TRUE]
    /\ UNCHANGED <<cacheVars, moreVars, badVars, ctxCancels, workerVars>>

\* ch = make(chan int); go func() {...}(): nothing ever sends on ch.
CL_Go ==
    /\ opc[ChannelLeak] = "L60"
    /\ opc' = [opc EXCEPT ![ChannelLeak] = "L69"]
    /\ cur' = [cur EXCEPT ![ChannelLeak] = "second"]
    /\ GoWorker(ChannelLeak, ChannelLeak, ChannelLeak, FALSE, FALSE)
    /\ UNCHANGED <<cacheVars, moreVars, ctxVars, bpc, bobj, hourArmed, hourC>>

\* ChannelLeak returns: the deferred cancel() runs.
CL_Return ==
    /\ opc[ChannelLeak] = "L69"
    /\ opc' = [opc EXCEPT ![ChannelLeak] = "returned"]
    /\ Cancel(ChannelLeak)
    /\ UNCHANGED <<cacheVars, moreVars, badVars, workerVars>>

\* TimerLeak: ctx, cancel := context.WithCancel(...); defer cancel()
TL_Ctx ==
    /\ opc[TimerLeak] = "L11"
    /\ opc' = [opc EXCEPT ![TimerLeak] = "L15"]
    /\ ctxDone' = [ctxDone EXCEPT ![TimerLeak] = FALSE]
    /\ UNCHANGED <<cacheVars, moreVars, badVars, ctxDeadline, ctxCancels, workerVars>>

\* timer := time.NewTimer(time.Hour); go func() { <-timer.C; ... }()
TL_BadGo ==
    /\ opc[TimerLeak] = "L15"
    /\ opc' = [opc EXCEPT ![TimerLeak] = "L22"]
    /\ hourArmed' = TRUE
    /\ bpc' = [bpc EXCEPT ![TimerLeak] = "read"]
    /\ UNCHANGED <<cacheVars, moreVars, ctxVars, workerVars, cur, bobj, hourC>>

\* timer = time.NewTimer(time.Second); defer timer.Stop(); go func() {...}();
\* the function then blocks in select {} for ever: neither deferred call has a step.
TL_Go ==
    /\ opc[TimerLeak] = "L22"
    /\ opc' = [opc EXCEPT ![TimerLeak] = "L35"]
    /\ cur' = [cur EXCEPT ![TimerLeak] = "second"]
    /\ GoWorker(TimerLeak, TimerLeak, TimerLeak, TRUE, FALSE)
    /\ UNCHANGED <<cacheVars, moreVars, ctxVars, bpc, bobj, hourArmed, hourC>>

\* The first goroutine evaluates the captured variable (<-ch, <-timer.C).
\* Nothing orders this read with the function's later assignment to the same
\* variable: once the assignment is made the read may see either object.
BadRead(f) ==
    /\ bpc[f] = "read"
    /\ bpc' = [bpc EXCEPT ![f] = "wait"]
    /\ \E o \in (IF cur[f] = "second" THEN {"first", "second"} ELSE {"first"}) :
          bobj' = [bobj EXCEPT ![f] = o]
    /\ UNCHANGED <<cacheVars, moreVars, ctxVars, opc, workerVars, cur, hourArmed, hourC>>

\* The one-hour timer fires.
HourFire ==
    /\ hourArmed
    /\ hourArmed' = FALSE
    /\ hourC' = 1
    /\ UNCHANGED <<cacheVars, moreVars, ctxVars, opc, workerVars, cur, bpc, bobj>>

\* <-timer.C on the one-hour timer; fmt.Println("Done!")
BadRecvHour ==
    /\ bpc[TimerLeak] = "wait"
    /\ bobj[TimerLeak] = "first"
    /\ hourC = 1
    /\ hourC' = 0
    /\ bpc' = [bpc EXCEPT ![TimerLeak] = "returned"]
    /\ UNCHANGED <<cacheVars, moreVars, ctxVars, opc, workerVars, cur, bobj, hourArmed>>

\* <-timer.C on the one-second timer, the one the second goroutine selects on.
BadRecvTimer ==
    /\ bpc[TimerLeak] = "wait"
    /\ bobj[TimerLeak] = "second"
    /\ timerC[TimerLeak] = 1
    /\ timerC' = [timerC EXCEPT ![TimerLeak] = 0]
    /\ bpc' = [bpc EXCEPT ![TimerLeak] = "returned"]
    /\ UNCHANGED <<cacheVars, moreVars, ctxVars, opc, wpc, wkind, wctx, tickerOn, tickC,
                   timerArmed, chSender, logged, cur, bobj, hourArmed, hourC>>

OwnerStep ==
    \/ GLWC_Ctx
    \/ GLWC_Go
    \/ CL_BadGo
    \/ TL_BadGo
    \/ CL_Ctx
    \/ CL_Go
    \/ CL_Return
    \/ TL_Ctx
    \/ TL_Go

LessonInit ==
    /\ ctxDone = [c \in Ctxs |-> FALSE]
    /\ ctxDeadline = [c \in Ctxs |-> FALSE]
    /\ opc = [f \in Funcs |-> CASE f = GoroutineLeakWithContext -> "L45"
                                [] f = ChannelLeak -> "L49"
                                [] OTHER -> "L11"]
    /\ wpc = [w \in Goroutines |-> "unborn"]
    /\ wkind = [w \in Goroutines |-> GoroutineLeakWithContext]
    /\ wctx = [w \in Goroutines |-> GoroutineLeakWithContext]
    /\ tickerOn = [w \in Goroutines |-> FALSE]
    /\ tickC = [w \in Goroutines |-> 0]
    /\ timerArmed = [w \in Goroutines |-> FALSE]
    /\ timerC = [w \in Goroutines |-> 0]
    /\ chSender = [w \in Goroutines |-> FALSE]
    /\ logged = [w \in Goroutines |-> 0]
    /\ ctxCancels = [c \in Ctxs |-> 0]
    /\ cur = [f \in BadFuncs |-> "first"]
    /\ bpc = [f \in BadFuncs |-> "unborn"]
    /\ bobj = [f \in BadFuncs |-> "first"]
    /\ hourArmed = FALSE
    /\ hourC = 0

\* ================================================================ caches
\* Time is counted in minutes.
Minute == 1
Interval == Minute   \* time.NewTicker(time.Minute) in BetterCache.Cleanup

MaxTime == 2      \* the clock reading is kept within 0..MaxTime
MaxTtl == Minute   \* ttl is 0 or the one minute MapLeak gives its BetterCache

Keys == {"a", "b"}
Values == {"x", "y"}
Setters == {1, 2}    \* goroutines calling Set
Sweepers == {1, 2}   \* calls of BetterCache.Cleanup, each starting a goroutine

\* Who holds a sync.RWMutex in write mode: 0 is nobody.
Unlocked == 0
SetterId(s) == s
SweeperId(i) == Cardinality(Setters) + i

NoItems == [k \in {} |-> 0]

\* m[k] = e, as a Go map assignment does it: insert or overwrite.
MapPut(m, k, e) == [x \in (DOMAIN m) \cup {k} |-> IF x = k THEN e ELSE m[x]]

\* delete(m, k): removing an absent key does nothing.
MapDelete(m, k) == [x \in (DOMAIN m) \ {k} |-> m[x]]

\* CacheItem{value: value, timestamp: time.Now()}
CacheItem(v, t) == [value |-> v, timestamp |-> t]

\* v.timestamp.Sub(now) > c.ttl: the operands of Sub exchanged.
ExpiredReversed(n, ts, d) == ts - n > d

\* now.Sub(v.timestamp) >= c.ttl: an entry exactly ttl old goes too.
ExpiredAtTtl(n, ts, d) == n - ts >= d

\* now.Sub(v.timestamp) > c.ttl
Expired(n, ts, d) == n - ts > d

\* What one whole sweep pass that reads the time n makes of the map m.
SweepOf(m, n, d) == [k \in {x \in DOMAIN m : ~Expired(n, m[x].timestamp, d)} |-> m[k]]

\* ------------------------------------------------------------------ Set
\* A goroutine calls Set and reaches c.Lock().  Set does not look at its
\* arguments before it holds the lock: the model draws them there.
SetCall(s) ==
    /\ spc[s] = "idle"
    /\ spc' = [spc EXCEPT ![s] = "Lock"]
    /\ UNCHANGED <<lessonVars, moreVars, now, ttl, starget, items, mu, plain, cmu, serial, cserial,
                   skey, sval, shad, sweepVars>>

\* A Lock that does not wait for the holder.
SetLockNoWait(s, k, v) ==
    /\ spc[s] = "Lock"
    /\ IF starget = "BetterCache"
         THEN mu' = SetterId(s) /\ UNCHANGED cmu
         ELSE cmu' = SetterId(s) /\ UNCHANGED mu
    /\ spc' = [spc EXCEPT ![s] = "write"]
    /\ skey' = [skey EXCEPT ![s] = k]
    /\ sval' = [sval EXCEPT ![s] = v]
    /\ UNCHANGED <<lessonVars, moreVars, now, ttl, starget, items, plain, serial, cserial, shad, sweepVars>>

\* c.Lock() returns: it blocks while the mutex is held.
SetLock(s, k, v) ==
    /\ spc[s] = "Lock"
    /\ IF starget = "BetterCache"
         THEN mu = Unlocked /\ mu' = SetterId(s) /\ UNCHANGED cmu
         ELSE cmu = Unlocked /\ cmu' = SetterId(s) /\ UNCHANGED mu
    /\ spc' = [spc EXCEPT ![s] = "write"]
    /\ skey' = [skey EXCEPT ![s] = k]
    /\ sval' = [sval EXCEPT ![s] = v]
    /\ UNCHANGED <<lessonVars, moreVars, now, ttl, starget, items, plain, serial, cserial, shad, sweepVars>>

\* A Set that stamps only new keys: an overwrite keeps the entry's timestamp.
SetWriteKeepsStamp(s) ==
    /\ spc[s] = "write"
    /\ LET t == IF starget = "BetterCache" /\ skey[s] \in DOMAIN items
                 THEN items[skey[s]].timestamp ELSE now IN
       IF starget = "BetterCache"
         THEN /\ items' = MapPut(items, skey[s], CacheItem(sval[s], t))
              /\ serial' = MapPut(serial, skey[s], CacheItem(sval[s], t))
              /\ shad' = [shad EXCEPT ![s] = /\ skey[s] \in DOMAIN items
                                              /\ items[skey[s]].timestamp < now]
              /\ UNCHANGED <<plain, cserial>>
         ELSE /\ plain' = MapPut(plain, skey[s], sval[s])
              /\ cserial' = MapPut(cserial, skey[s], sval[s])
              /\ shad' = [shad EXCEPT ![s] = skey[s] \in DOMAIN plain]
              /\ UNCHANGED <<items, serial>>
    /\ spc' = [spc EXCEPT ![s] = "Unlock"]
    /\ UNCHANGED <<lessonVars, moreVars, now, ttl, starget, mu, cmu, skey, sval, sweepVars>>

\* c.items[key] = CacheItem{value: value, timestamp: time.Now()} (BetterCache)
\* c.items[key] = value (Cache)
SetWrite(s) ==
    /\ spc[s] = "write"
    /\ IF starget = "BetterCache"
         THEN /\ items' = MapPut(items, skey[s], CacheItem(sval[s], now))
              /\ serial' = MapPut(serial, skey[s], CacheItem(sval[s], now))
              /\ shad' = [shad EXCEPT ![s] = /\ skey[s] \in DOMAIN items
                                              /\ items[skey[s]].timestamp < now]
              /\ UNCHANGED <<plain, cserial>>
         ELSE /\ plain' = MapPut(plain, skey[s], sval[s])
              /\ cserial' = MapPut(cserial, skey[s], sval[s])
              /\ shad' = [shad EXCEPT ![s] = skey[s] \in DOMAIN plain]
              /\ UNCHANGED <<items, serial>>
    /\ spc' = [spc EXCEPT ![s] = "Unlock"]
    /\ UNCHANGED <<lessonVars, moreVars, now, ttl, starget, mu, cmu, skey, sval, sweepVars>>

\* The deferred c.Unlock() runs and Set returns; its arguments are gone.
SetUnlock(s) ==
    /\ spc[s] = "Unlock"
    /\ IF starget = "BetterCache"
         THEN mu' = Unlocked /\ UNCHANGED cmu
         ELSE cmu' = Unlocked /\ UNCHANGED mu
    /\ spc' = [spc EXCEPT ![s] = "idle"]
    /\ skey' = [skey EXCEPT ![s] = "a"]
    /\ sval' = [sval EXCEPT ![s] = "x"]
    /\ shad' = [shad EXCEPT ![s] = FALSE]
    /\ UNCHANGED <<lessonVars, moreVars, now, ttl, starget, items, plain, serial, cserial, sweepVars>>

\* -------------------------------------------------------------- Cleanup
\* c.Cleanup(): a new ticker and a new goroutine ranging over ticker.C, per call.
Cleanup(i) ==
    /\ starget = "BetterCache"
    /\ swpc[i] = "none"
    /\ \A j \in Sweepers : j < i => swpc[j] # "none"
    /\ swpc' = [swpc EXCEPT ![i] = "recv"]
    /\ nextTick' = [nextTick EXCEPT ![i] = now + Interval]
    /\ UNCHANGED <<lessonVars, moreVars, now, ttl, starget, items, mu, plain, cmu, serial, cserial,
                   setVars, swtickC, swnow, swtodo, swk, swv, snap, lastPass>>

\* The ticker's period has passed: a tick is sent, or dropped if one is buffered.
SweepTickFire(i) ==
    /\ swpc[i] # "none"
    /\ nextTick[i] <= now
    /\ nextTick' = [nextTick EXCEPT ![i] = @ + Interval]
    /\ swtickC' = [swtickC EXCEPT ![i] = 1]
    /\ UNCHANGED <<lessonVars, moreVars, now, ttl, starget, items, mu, plain, cmu, serial, cserial,
                   setVars, swpc, swnow, swtodo, swk, swv, snap, lastPass>>

\* for range ticker.C: the next tick is received.
SweepRecv(i) ==
    /\ swpc[i] = "recv"
    /\ swtickC[i] = 1
    /\ swtickC' = [swtickC EXCEPT ![i] = 0]
    /\ swpc' = [swpc EXCEPT ![i] = "Lock"]
    /\ UNCHANGED <<lessonVars, moreVars, now, ttl, starget, items, mu, plain, cmu, serial, cserial,
                   setVars, nextTick, swnow, swtodo, swk, swv, snap, lastPass>>

\* c.Lock()
SweepLock(i) ==
    /\ swpc[i] = "Lock"
    /\ mu = Unlocked
    /\ mu' = SweeperId(i)
    /\ swpc' = [swpc EXCEPT ![i] = "now"]
    /\ UNCHANGED <<lessonVars, moreVars, now, ttl, starget, items, plain, cmu, serial, cserial,
                   setVars, nextTick, swtickC, swnow, swtodo, swk, swv, snap, lastPass>>

\* now := time.Now(), and the range over c.items begins.
SweepNow(i) ==
    /\ swpc[i] = "now"
    /\ swnow' = [swnow EXCEPT ![i] = now]
    /\ swtodo' = [swtodo EXCEPT ![i] = DOMAIN items]
    /\ snap' = items
    /\ serial' = SweepOf(serial, now, ttl)
    /\ swpc' = [swpc EXCEPT ![i] = "range"]
    /\ UNCHANGED <<lessonVars, moreVars, now, ttl, starget, items, mu, plain, cmu, cserial,
                   setVars, nextTick, swtickC, swk, swv, lastPass>>

\* for k, v := range c.items: the next entry, in no particular order; an entry
\* deleted before it is reached is not produced.  With no entry left the loop ends.
SweepRange(i) ==
    /\ swpc[i] = "range"
    /\ LET left == swtodo[i] \cap DOMAIN items IN
       IF left = {}
         THEN /\ swpc' = [swpc EXCEPT ![i] = "Unlock"]
              /\ swtodo' = [swtodo EXCEPT ![i] = {}]
              /\ lastPass' = swnow[i]
              /\ UNCHANGED <<swk, swv>>
         ELSE \E k \in left :
              /\ swk' = [swk EXCEPT ![i] = k]
              /\ swv' = [swv EXCEPT ![i] = items[k].timestamp]
              /\ swtodo' = [swtodo EXCEPT ![i] = left \ {k}]
              /\ swpc' = [swpc EXCEPT ![i] = "body"]
              /\ UNCHANGED lastPass
    /\ UNCHANGED <<lessonVars, moreVars, now, ttl, starget, items, mu, plain, cmu, serial, cserial,
                   setVars, nextTick, swtickC, swnow, snap>>

\* if now.Sub(v.timestamp) > c.ttl { delete(c.items, k) }
SweepBody(i) ==
    /\ swpc[i] = "body"
    /\ items' = IF Expired(swnow[i], swv[i], ttl) THEN MapDelete(items, swk[i]) ELSE items
    /\ swpc' = [swpc EXCEPT ![i] = "range"]
    /\ swk' = [swk EXCEPT ![i] = "a"]
    /\ swv' = [swv EXCEPT ![i] = 0]
    /\ UNCHANGED <<lessonVars, moreVars, now, ttl, starget, mu, plain, cmu, serial, cserial,
                   setVars, nextTick, swtickC, swnow, swtodo, snap, lastPass>>

\* A 'defer c.Unlock()' in the loop: it runs when the goroutine ends, never.
SweepUnlockKeepsLock(i) ==
    /\ swpc[i] = "Unlock"
    /\ swpc' = [swpc EXCEPT ![i] = "recv"]
    /\ swnow' = [swnow EXCEPT ![i] = 0]
    /\ snap' = NoItems
    /\ UNCHANGED <<lessonVars, moreVars, now, ttl, starget, items, mu, plain, cmu, serial, cserial,
                   setVars, nextTick, swtickC, swtodo, swk, swv, lastPass>>

\* A single '<-ticker.C' in place of the range: the goroutine ends after one pass.
SweepUnlockReturns(i) ==
    /\ swpc[i] = "Unlock"
    /\ mu' = Unlocked
    /\ swpc' = [swpc EXCEPT ![i] = "returned"]
    /\ swnow' = [swnow EXCEPT ![i] = 0]
    /\ snap' = NoItems
    /\ UNCHANGED <<lessonVars, moreVars, now, ttl, starget, items, plain, cmu, serial, cserial,
                   setVars, nextTick, swtickC, swtodo, swk, swv, lastPass>>

\* c.Unlock(), and back to waiting for the next tick.
SweepUnlock(i) ==
    /\ swpc[i] = "Unlock"
    /\ mu' = Unlocked
    /\ swpc' = [swpc EXCEPT ![i] = "recv"]
    /\ swnow' = [swnow EXCEPT ![i] = 0]
    /\ snap' = NoItems
    /\ UNCHANGED <<lessonVars, moreVars, now, ttl, starget, items, plain, cmu, serial, cserial,
                   setVars, nextTick, swtickC, swtodo, swk, swv, lastPass>>

\* ----------------------------------------------------------------- time
\* The runtime's timers are punctual: every tick that is due has been sent
\* before the clock moves on.  Goroutines may be arbitrarily late.
TicksSent == \A i \in Sweepers : swpc[i] # "none" => nextTick[i] > now

\* A minute passes.
AdvanceTime ==
    /\ now < MaxTime
    /\ TicksSent
    /\ now' = now + 1
    /\ UNCHANGED <<lessonVars, moreVars, ttl, starget, items, mu, plain, cmu, serial, cserial,
                   setVars, sweepVars>>

\* A minute passes with the clock reading already at MaxTime: the origin of
\* the clock moves up by a minute instead, and every recorded time reads one
\* less.  A timestamp that would fall below 0 stays 0: its entry is older than
\* MaxTime minutes and MaxTime > MaxTtl, so it is expired whichever it is.  A
\* pass in progress holds a reading of its own, so it is left to finish first.
Earlier(t) == IF t > 0 THEN t - 1 ELSE t
EarlierItems(m) == [k \in DOMAIN m |-> [m[k] EXCEPT !.timestamp = Earlier(@)]]

RebaseTime ==
    /\ now = MaxTime
    /\ TicksSent
    /\ \A i \in Sweepers : swpc[i] \in {"none", "recv", "Lock", "now"}
    /\ items' = EarlierItems(items)
    /\ serial' = EarlierItems(serial)
    /\ nextTick' = [i \in Sweepers |-> Earlier(nextTick[i])]
    /\ lastPass' = Earlier(lastPass)
    /\ UNCHANGED <<lessonVars, moreVars, now, ttl, starget, mu, plain, cmu, cserial, setVars,
                   swpc, swtickC, swnow, swtodo, swk, swv, snap>>

CacheInit ==
    /\ now = 0
    /\ ttl \in 0..MaxTtl
    /\ starget \in {"Cache", "BetterCache"}
    /\ items = NoItems
    /\ mu = Unlocked
    /\ plain = NoItems
    /\ cmu = Unlocked
    /\ serial = NoItems
    /\ cserial = NoItems
    /\ spc = [s \in Setters |-> "idle"]
    /\ skey = [s \in Setters |-> "a"]
    /\ sval = [s \in Setters |-> "x"]
    /\ shad = [s \in Setters |-> FALSE]
    /\ swpc = [i \in Sweepers |-> "none"]
    /\ nextTick = [i \in Sweepers |-> 0]
    /\ swtickC = [i \in Sweepers |-> 0]
    /\ swnow = [i \in Sweepers |-> 0]
    /\ swtodo = [i \in Sweepers |-> {}]
    /\ swk = [i \in Sweepers |-> "a"]
    /\ swv = [i \in Sweepers |-> 0]
    /\ snap = NoItems
    /\ lastPass = -1


\* ======================================================== HTTPBodyLeak
\* The error value a failing call returns: the n-th call's own error.
ErrOf(n) == <<"err1", "err2", "err3", "err4">>[n]

\* resp, err := http.Get(...); if err != nil { return err }
HTTP_Get1(ok) ==
    /\ hpc = "L12"
    /\ hlog' = Append(hlog, ok)
    /\ IF ok
         THEN /\ hpc' = "L16"
              /\ hbody' = [hbody EXCEPT ![1] = "open"]
              /\ UNCHANGED hret
         ELSE /\ hpc' = "returned"
              /\ hret' = ErrOf(1)
              /\ UNCHANGED hbody
    /\ UNCHANGED <<lessonVars, cacheVars, restVars, deferVars, globalVars, hcloses>>

\* An io.ReadAll failure that is printed and not returned.
HTTP_Read1Swallows(ok) ==
    /\ hpc = "L16"
    /\ hlog' = Append(hlog, ok)
    /\ hpc' = "L24"
    /\ UNCHANGED <<lessonVars, cacheVars, restVars, deferVars, globalVars, hret, hbody, hcloses>>

\* body, err := io.ReadAll(resp.Body); if err != nil { fmt.Println(err); return err }
\* The first Body is never closed.
HTTP_Read1(ok) ==
    /\ hpc = "L16"
    /\ hlog' = Append(hlog, ok)
    /\ IF ok
         THEN hpc' = "L24" /\ UNCHANGED hret
         ELSE hpc' = "returned" /\ hret' = ErrOf(2)
    /\ UNCHANGED <<lessonVars, cacheVars, restVars, deferVars, globalVars, hbody, hcloses>>

\* resp, err = http.Get(...); if err != nil { return err }; defer resp.Body.Close()
HTTP_Get2(ok) ==
    /\ hpc = "L24"
    /\ hlog' = Append(hlog, ok)
    /\ IF ok
         THEN /\ hpc' = "L29"
              /\ hbody' = [hbody EXCEPT ![2] = "open"]
              /\ UNCHANGED hret
         ELSE /\ hpc' = "returned"
              /\ hret' = ErrOf(3)
              /\ UNCHANGED hbody
    /\ UNCHANGED <<lessonVars, cacheVars, restVars, deferVars, globalVars, hcloses>>

\* A Close written after the read instead of deferred: the error return skips it.
HTTP_Read2ClosesAtEnd(ok) ==
    /\ hpc = "L29"
    /\ hlog' = Append(hlog, ok)
    /\ hpc' = "returned"
    /\ hret' = IF ok THEN "nil" ELSE ErrOf(4)
    /\ IF ok
         THEN /\ hbody' = [hbody EXCEPT ![2] = "closed"]
              /\ hcloses' = [hcloses EXCEPT ![2] = @ + 1]
         ELSE UNCHANGED <<hbody, hcloses>>
    /\ UNCHANGED <<lessonVars, cacheVars, restVars, deferVars, globalVars>>

\* body, err = io.ReadAll(resp.Body); on failure print and return err, otherwise
\* print the length and return nil; either return runs the deferred Close.
HTTP_Read2(ok) ==
    /\ hpc = "L29"
    /\ hlog' = Append(hlog, ok)
    /\ hpc' = "returned"
    /\ hret' = IF ok THEN "nil" ELSE ErrOf(4)
    /\ hbody' = [hbody EXCEPT ![2] = "closed"]
    /\ hcloses' = [hcloses EXCEPT ![2] = @ + 1]
    /\ UNCHANGED <<lessonVars, cacheVars, restVars, deferVars, globalVars>>

HTTPInit ==
    /\ hpc = "L12"
    /\ hret = "none"
    /\ hlog = << >>
    /\ hbody = [n \in 1..2 |-> "none"]
    /\ hcloses = [n \in 1..2 |-> 0]

\* ===================================================== DeferInLoopLeak
\* The loop of the code runs 100_000 times; the model's runs MaxIter times.
MaxIter == 3

\* i < 100_000: call the closure, or leave the loop and return.
DL_Loop ==
    /\ dpc = "loop"
    /\ dpc' = IF di < MaxIter THEN "open" ELSE "returned"
    /\ UNCHANGED <<lessonVars, cacheVars, restVars, httpVars, globalVars,
                   di, dopen, dopened, dclosed, dfailed, dwfailed>>

\* file, err := os.OpenFile(...); on failure print the error and return from
\* the closure, which ends the iteration (i++); otherwise defer file.Close().
DL_Open(ok) ==
    /\ dpc = "open"
    /\ IF ok
         THEN /\ dpc' = "write"
              /\ dopen' = dopen + 1
              /\ dopened' = dopened + 1
              /\ UNCHANGED <<di, dfailed>>
         ELSE /\ dpc' = "loop"
              /\ di' = di + 1
              /\ dfailed' = TRUE
              /\ UNCHANGED <<dopen, dopened>>
    /\ UNCHANGED <<lessonVars, cacheVars, restVars, httpVars, globalVars, dclosed, dwfailed>>

\* file.WriteString(...); a failure is printed.
DL_Write(ok) ==
    /\ dpc = "write"
    /\ dpc' = "close"
    /\ dwfailed' = (dwfailed \/ ~ok)
    /\ UNCHANGED <<lessonVars, cacheVars, restVars, httpVars, globalVars,
                   di, dopen, dopened, dclosed, dfailed>>

\* A defer in the body of the loop itself: it waits for DeferInLoopLeak to return.
DL_CloseAtReturn ==
    /\ dpc = "close"
    /\ dpc' = "loop"
    /\ di' = di + 1
    /\ UNCHANGED <<lessonVars, cacheVars, restVars, httpVars, globalVars,
                   dopen, dopened, dclosed, dfailed, dwfailed>>

\* The closure returns: the deferred file.Close() runs, and the iteration ends (i++).
DL_Close ==
    /\ dpc = "close"
    /\ dpc' = "loop"
    /\ dopen' = dopen - 1
    /\ dclosed' = dclosed + 1
    /\ di' = di + 1
    /\ UNCHANGED <<lessonVars, cacheVars, restVars, httpVars, globalVars, dopened, dfailed, dwfailed>>

DeferInit ==
    /\ dpc = "loop"
    /\ di = 0
    /\ dopen = 0
    /\ dopened = 0
    /\ dclosed = 0
    /\ dfailed = FALSE
    /\ dwfailed = FALSE

\* ============================================== the global betterCache
MaxStores == 2

Panicked == gres = "panic"

\* betterCache.Store(key, value)
SetGlobalCache(k) ==
    /\ ~Panicked
    /\ gsets < MaxStores
    /\ gsets' = gsets + 1
    /\ gstore' = gstore \cup {k}
    /\ UNCHANGED <<lessonVars, cacheVars, restVars, httpVars, deferVars, gswpc, gtickC, gtodo, gkey, gres>>

\* value, _ := betterCache.Load(key); return value.(*LargeObject)
\* Load gives a nil interface for a key that is not stored, and the type
\* assertion of a nil interface panics.
GetGlobalCache(k) ==
    /\ ~Panicked
    /\ gkey' = k
    /\ gres' = IF k \in gstore THEN "object" ELSE "panic"
    /\ UNCHANGED <<lessonVars, cacheVars, restVars, httpVars, deferVars, gstore, gsets, gswpc, gtickC, gtodo>>

\* cleanup(): ticker := time.NewTicker(time.Hour); go func() {...}()
GCleanup ==
    /\ ~Panicked
    /\ gswpc = "none"
    /\ gswpc' = "recv"
    /\ UNCHANGED <<lessonVars, cacheVars, restVars, httpVars, deferVars, gstore, gsets, gtickC, gtodo, gkey, gres>>

\* The hourly ticker sends a tick; a tick that finds the buffer full is dropped.
GTickFire ==
    /\ ~Panicked
    /\ gswpc # "none"
    /\ gtickC = 0
    /\ gtickC' = 1
    /\ UNCHANGED <<lessonVars, cacheVars, restVars, httpVars, deferVars, gstore, gsets, gswpc, gtodo, gkey, gres>>

\* for range ticker.C: a tick arrives, betterCache.Range(...) begins.
GSweepRecv ==
    /\ ~Panicked
    /\ gswpc = "recv"
    /\ gtickC = 1
    /\ gtickC' = 0
    /\ gswpc' = "range"
    /\ gtodo' = gstore
    /\ UNCHANGED <<lessonVars, cacheVars, restVars, httpVars, deferVars, gstore, gsets, gkey, gres>>

\* The callback of Range on one key: "Implement cleanup logic", return true.
\* It deletes nothing.
GSweepVisit(k) ==
    /\ ~Panicked
    /\ gswpc = "range"
    /\ k \in gtodo
    /\ gtodo' = gtodo \ {k}
    /\ UNCHANGED <<lessonVars, cacheVars, restVars, httpVars, deferVars, gstore, gsets, gswpc, gtickC, gkey, gres>>

\* Range returns; back to waiting for the next tick.
GSweepEnd ==
    /\ ~Panicked
    /\ gswpc = "range"
    /\ gtodo = {}
    /\ gswpc' = "recv"
    /\ UNCHANGED <<lessonVars, cacheVars, restVars, httpVars, deferVars, gstore, gsets, gtickC, gtodo, gkey, gres>>

GlobalInit ==
    /\ gstore = {}
    /\ gsets = 0
    /\ gswpc = "none"
    /\ gtickC = 0
    /\ gtodo = {}
    /\ gkey = "a"
    /\ gres = "none"

\* ======================================================== GoroutineLeak
MaxLeak == 3   \* leakSlice is followed up to this length

\* go func() {...}(); the function then blocks in select {} for ever.
GL_Go ==
    /\ glopc = "L22"
    /\ glopc' = "L40"
    /\ glpc' = "start"
    /\ UNCHANGED <<lessonVars, cacheVars, httpVars, deferVars, globalVars, loanVars, mainVars,
                   glTickerOn, glTickC, leakLen>>

\* ticker := time.NewTicker(time.Second); largeString := ""
GL_Start ==
    /\ glpc = "start"
    /\ glpc' = "select"
    /\ glTickerOn' = TRUE
    /\ UNCHANGED <<lessonVars, cacheVars, httpVars, deferVars, globalVars, loanVars, mainVars,
                   glopc, glTickC, leakLen>>

\* The runtime sends a tick; a tick that finds the buffer full is dropped.
GL_TickerFire ==
    /\ glTickerOn
    /\ glTickC = 0
    /\ glTickC' = 1
    /\ UNCHANGED <<lessonVars, cacheVars, httpVars, deferVars, globalVars, loanVars, mainVars,
                   glopc, glpc, glTickerOn, leakLen>>

\* A goroutine that handles one tick, stops its ticker and returns.
GL_RecvTickOnce ==
    /\ glpc = "select"
    /\ glTickC = 1
    /\ leakLen < MaxLeak
    /\ glTickC' = 0
    /\ leakLen' = leakLen + 1
    /\ glTickerOn' = FALSE
    /\ glpc' = "returned"
    /\ UNCHANGED <<lessonVars, cacheVars, httpVars, deferVars, globalVars, loanVars, mainVars, glopc>>

\* case <-ticker.C: leakSlice = append(leakSlice, newLeak); largeString += ...;
\* log.Printf(...); ClosureLeak(), which allocates, prints and returns; then
\* the for loop is back at the select.
GL_RecvTick ==
    /\ glpc = "select"
    /\ glTickC = 1
    /\ leakLen < MaxLeak
    /\ glTickC' = 0
    /\ leakLen' = leakLen + 1
    /\ UNCHANGED <<lessonVars, cacheVars, httpVars, deferVars, globalVars, loanVars, mainVars,
                   glopc, glpc, glTickerOn>>

LeakInit ==
    /\ glopc = "L22"
    /\ glpc = "unborn"
    /\ glTickerOn = FALSE
    /\ glTickC = 0
    /\ leakLen = 0

\* ============================================================== float64
\* A float64 is NaN, an infinity, or a finite number kept as an exact fraction
\* n/d with d > 0, in lowest terms: <<kind, n, d>>.  Rounding and the sign of
\* zero are not followed; the comparisons and the arithmetic on NaN and the
\* infinities are IEEE 754's, which Go's operators implement.
NaN == <<"nan", 0, 1>>
PosInf == <<"inf", 1, 1>>
NegInf == <<"inf", -1, 1>>
Abs(n) == IF n < 0 THEN -n ELSE n

RECURSIVE GCD(_, _)
GCD(a, b) == IF b = 0 THEN a ELSE GCD(b, a % b)

\* The finite number n/d (d > 0), in lowest terms.
Fin(n, d) == <<"fin", n \div GCD(Abs(n), d), d \div GCD(Abs(n), d)>>
Float(n) == Fin(n, 1)          \* float64(n), and the constant n

IsNaN(x) == x[1] = "nan"
IsInf(x) == x[1] = "inf"
Sgn(x) == IF x[2] > 0 THEN 1 ELSE IF x[2] < 0 THEN -1 ELSE 0

\* x * y
Mul(x, y) ==
    IF IsNaN(x) \/ IsNaN(y) THEN NaN
    ELSE IF IsInf(x) \/ IsInf(y)
         THEN IF Sgn(x) * Sgn(y) = 0 THEN NaN
              ELSE IF Sgn(x) * Sgn(y) > 0 THEN PosInf ELSE NegInf
         ELSE Fin(x[2] * y[2], x[3] * y[3])

\* x / y
Div(x, y) ==
    IF IsNaN(x) \/ IsNaN(y) THEN NaN
    ELSE IF IsInf(x)
         THEN IF IsInf(y) THEN NaN
              ELSE IF Sgn(x) * Sgn(y) < 0 THEN NegInf ELSE PosInf
         ELSE IF IsInf(y) THEN Float(0)
              ELSE IF y[2] = 0
                   THEN IF x[2] = 0 THEN NaN
                        ELSE IF x[2] > 0 THEN PosInf ELSE NegInf
                   ELSE Fin(x[2] * y[3] * Sgn(y), x[3] * Abs(y[2]))

\* x + y
Add(x, y) ==
    IF IsNaN(x) \/ IsNaN(y) THEN NaN
    ELSE IF IsInf(x)
         THEN IF IsInf(y) /\ x # y THEN NaN ELSE x
         ELSE IF IsInf(y) THEN y
              ELSE Fin(x[2] * y[3] + y[2] * x[3], x[3] * y[3])

\* x > y, x < y, x <= y, x >= y: every comparison with a NaN is false.
Gt(x, y) ==
    /\ ~IsNaN(x) /\ ~IsNaN(y)
    /\ IF IsInf(x) \/ IsInf(y)
       THEN x # y /\ (x = PosInf \/ y = NegInf)
       ELSE x[2] * y[3] > y[2] * x[3]
Lt(x, y) == Gt(y, x)
Le(x, y) == ~IsNaN(x) /\ ~IsNaN(y) /\ ~Gt(x, y)
Ge(x, y) == Le(y, x)

\* ================================================================= loan
MaxRepoCalls == 2   \* calls of the repository that are followed

StatusPending == "pending"
StatusApproved == "approved"
StatusRejected == "rejected"
StatusDefault == "default"
Statuses == {"", StatusPending, StatusApproved, StatusRejected, StatusDefault}

HighAmount == 10000   \* the amount above which the higher rate applies
HighRate == Fin(15, 100)
LowRate == Fin(12, 100)

ErrAmount == "loan amount must be positive"
ErrCustomer == "customer ID is required"
ErrRate == "interest rate cannot be negative"
ErrSave == "save failed"

Amounts == {NaN, Float(-1), Float(0), Float(1), Float(HighAmount), Float(HighAmount + 1)}
Rates == {NaN, Float(-1), Float(0)}
CustomerIDs == {"", "c1"}
CallerCtxs == {"ctx1", "ctx2"}

Loans == [ID : {"l1"}, Amount : Amounts, Status : Statuses, InterestRate : Rates,
          CustomerID : CustomerIDs, CreatedAt : {0}]

\* func (l *Loan) Validate() error
Validate(l) ==
    IF Le(l.Amount, Float(0)) THEN ErrAmount
    ELSE IF l.CustomerID = "" THEN ErrCustomer
    ELSE IF Lt(l.InterestRate, Float(0)) THEN ErrRate
    ELSE "nil"

\* An Approve that refuses a loan that is not pending.
ApproveFromPending(l) ==
    IF Validate(l) # "nil" \/ l.Status # StatusPending
    THEN [loan |-> l, err |-> IF Validate(l) # "nil" THEN Validate(l) ELSE "not pending"]
    ELSE [loan |-> [l EXCEPT !.Status = StatusApproved], err |-> "nil"]

\* An Approve that sets the status before it validates.
ApproveThenValidate(l) ==
    [loan |-> [l EXCEPT !.Status = StatusApproved], err |-> Validate(l)]

\* func (l *Loan) Approve() error: the loan it leaves and the error it returns.
Approve(l) ==
    IF Validate(l) # "nil"
    THEN [loan |-> l, err |-> Validate(l)]
    ELSE [loan |-> [l EXCEPT !.Status = StatusApproved], err |-> "nil"]

\* The higher rate from HighAmount on.
CalculateInterestFromThreshold(l) ==
    IF Ge(l.Amount, Float(HighAmount)) THEN Mul(l.Amount, HighRate)
    ELSE Mul(l.Amount, LowRate)

\* func (l *Loan) CalculateInterest() float64
CalculateInterest(l) ==
    IF Gt(l.Amount, Float(HighAmount)) THEN Mul(l.Amount, HighRate)
    ELSE Mul(l.Amount, LowRate)

\* The package before the refactoring.
OrigApprove(l) == [loan |-> [l EXCEPT !.Status = "approved"], err |-> "nil"]

OrigCalculateInterest(l) ==
    IF Gt(l.Amount, Float(HighAmount)) THEN Mul(l.Amount, HighRate)
    ELSE Mul(l.Amount, LowRate)

Call(op) == [op |-> op, ctx |-> "none"]

Loan_Validate ==
    /\ lcall' = Call("Validate")
    /\ lres' = Validate(loan)
    /\ UNCHANGED <<lessonVars, cacheVars, httpVars, deferVars, globalVars, leakVars, mainVars,
                   loan, repoLog>>

Loan_Approve ==
    /\ lcall' = Call("Approve")
    /\ loan' = Approve(loan).loan
    /\ lres' = Approve(loan).err
    /\ UNCHANGED <<lessonVars, cacheVars, httpVars, deferVars, globalVars, leakVars, mainVars, repoLog>>

Loan_CalculateInterest ==
    /\ lcall' = Call("CalculateInterest")
    /\ lres' = CalculateInterest(loan)
    /\ UNCHANGED <<lessonVars, cacheVars, httpVars, deferVars, globalVars, leakVars, mainVars,
                   loan, repoLog>>

Loan_OrigApprove ==
    /\ lcall' = Call("OrigApprove")
    /\ loan' = OrigApprove(loan).loan
    /\ lres' = OrigApprove(loan).err
    /\ UNCHANGED <<lessonVars, cacheVars, httpVars, deferVars, globalVars, leakVars, mainVars, repoLog>>

Loan_OrigCalculateInterest ==
    /\ lcall' = Call("OrigCalculateInterest")
    /\ lres' = OrigCalculateInterest(loan)
    /\ UNCHANGED <<lessonVars, cacheVars, httpVars, deferVars, globalVars, leakVars, mainVars,
                   loan, repoLog>>

\* A ProcessLoanApplication that saves whatever it is given.
ProcessWithoutValidate(c, e) ==
    /\ Len(repoLog) < MaxRepoCalls
    /\ lcall' = [op |-> "ProcessLoanApplication", ctx |-> c]
    /\ repoLog' = Append(repoLog, [op |-> "Save", ctx |-> c, loan |-> loan, ret |-> e])
    /\ lres' = e
    /\ UNCHANGED <<lessonVars, cacheVars, httpVars, deferVars, globalVars, leakVars, mainVars, loan>>

\* func (s *LoanService) ProcessLoanApplication(ctx, loan) error, called with
\* context c; e is what the repository's Save returns if it is called.  The
\* repository is whatever implements LoanRepository: it is taken to return an
\* error or nil and to leave the loan as it is.
ProcessLoanApplication(c, e) ==
    /\ Validate(loan) = "nil" => Len(repoLog) < MaxRepoCalls
    /\ lcall' = [op |-> "ProcessLoanApplication", ctx |-> c]
    /\ IF Validate(loan) # "nil"
       THEN /\ lres' = Validate(loan)
            /\ UNCHANGED repoLog
       ELSE /\ repoLog' = Append(repoLog, [op |-> "Save", ctx |-> c, loan |-> loan, ret |-> e])
            /\ lres' = e
    /\ UNCHANGED <<lessonVars, cacheVars, httpVars, deferVars, globalVars, leakVars, mainVars, loan>>

\* ------------------------------------------------------------------ main
Packages == {"original", "refactored"}

\* loan := loan.Loan{Amount: 10000}
Main_New ==
    /\ mpc = "L9"
    /\ mpc' = "L12"
    /\ mloan' = [ID |-> "", Amount |-> Float(10000), Status |-> "",
                 InterestRate |-> Float(0), CustomerID |-> "", CreatedAt |-> 0]
    /\ UNCHANGED <<lessonVars, cacheVars, httpVars, deferVars, globalVars, leakVars,
                   loanVars, pkg, mout, app, ares>>

\* loan.Approve(): the error it returns is dropped.
Main_Approve ==
    /\ mpc = "L12"
    /\ mpc' = "L13"
    /\ mloan' = IF pkg = "original" THEN OrigApprove(mloan).loan ELSE Approve(mloan).loan
    /\ UNCHANGED <<lessonVars, cacheVars, httpVars, deferVars, globalVars, leakVars,
                   loanVars, pkg, mout, app, ares>>

\* fmt.Println(loan.Status)
Main_PrintStatus ==
    /\ mpc = "L13"
    /\ mpc' = "L14"
    /\ mout' = Append(mout, mloan.Status)
    /\ UNCHANGED <<lessonVars, cacheVars, httpVars, deferVars, globalVars, leakVars,
                   loanVars, pkg, mloan, app, ares>>

\* fmt.Println(loan.CalculateInterest()), and main returns.
Main_PrintInterest ==
    /\ mpc = "L14"
    /\ mpc' = "exit"
    /\ mout' = Append(mout, IF pkg = "original" THEN OrigCalculateInterest(mloan)
                                                ELSE CalculateInterest(mloan))
    /\ UNCHANGED <<lessonVars, cacheVars, httpVars, deferVars, globalVars, leakVars,
                   loanVars, pkg, mloan, app, ares>>

MainStart ==
    /\ mpc = "L9"
    /\ mout = <<>>

\* ------------------------------------------------- the slides' application
MaxDebtToIncomeRatio == Fin(43, 100)
MinCreditScore == 640
MaxPaymentToIncome == Fin(28, 100)
ExcellentCreditScore == 760
GoodCreditScore == 700
ExcellentRate == Fin(325, 10000)
GoodRate == Fin(425, 10000)
StandardRate == Fin(525, 10000)

ErrInvalidAmount == "loan amount must be positive"
ErrInvalidDuration == "loan duration must be between 1 and 360 months"
ErrInvalidIncome == "monthly income must be positive"
ErrInvalidCreditScore == "credit score must be between 300 and 850"

\* fmt.Errorf("validation failed: %w", err)
Errorf(e) == <<"validation failed: %w", e>>

AppAmounts == {NaN, PosInf, Float(0), Float(100), Float(1000), Float(3200),
               Float(3240), Float(6000)}
AppDurations == {0, 1, 12, 360, 361}
AppIncomes == {NaN, PosInf, Float(0), Float(1000)}
AppScores == {299, 300, 639, 640, 700, 760, 850, 851}

Apps == [id : {"a1"}, amt : AppAmounts, dur : AppDurations, inc : AppIncomes,
         cr : AppScores]

\* func (l *LoanApp) proc() (bool, error)
proc(l) ==
    LET dti == Div(l.amt, Mul(l.inc, Float(l.dur)))
        r == IF l.cr >= 760 THEN Fin(325, 10000)
             ELSE IF l.cr >= 700 THEN Fin(425, 10000)
             ELSE Fin(525, 10000)
        mp == Div(Mul(l.amt, Add(Float(1), Div(Mul(r, Float(l.dur)), Float(12)))),
                  Float(l.dur))
    IN  IF Gt(dti, Fin(43, 100)) THEN [ok |-> FALSE, err |-> "nil"]
        ELSE IF l.cr < 640 THEN [ok |-> FALSE, err |-> "nil"]
        ELSE IF Gt(mp, Mul(l.inc, Fin(28, 100))) THEN [ok |-> FALSE, err |-> "nil"]
        ELSE [ok |-> TRUE, err |-> "nil"]

\* func (l *LoanApplication) validate() error
validate(l) ==
    IF Le(l.amt, Float(0)) THEN ErrInvalidAmount
    ELSE IF l.dur < 1 \/ l.dur > 360 THEN ErrInvalidDuration
    ELSE IF Le(l.inc, Float(0)) THEN ErrInvalidIncome
    ELSE IF l.cr < 300 \/ l.cr > 850 THEN ErrInvalidCreditScore
    ELSE "nil"

isDebtToIncomeRatioAcceptable(l) ==
    Le(Div(l.amt, Mul(l.inc, Float(l.dur))), MaxDebtToIncomeRatio)

isCreditScoreAcceptable(l) == l.cr >= MinCreditScore

determineInterestRate(l) ==
    IF l.cr >= ExcellentCreditScore THEN ExcellentRate
    ELSE IF l.cr >= GoodCreditScore THEN GoodRate
    ELSE StandardRate

calculateMonthlyPayment(l) ==
    LET rate == determineInterestRate(l)
        totalAmount == Mul(l.amt, Add(Float(1), Div(Mul(rate, Float(l.dur)), Float(12))))
    IN  Div(totalAmount, Float(l.dur))

isPaymentAffordable(l, monthlyPayment) ==
    Le(monthlyPayment, Mul(l.inc, MaxPaymentToIncome))

\* func (l *LoanApplication) ProcessApplication() (bool, error)
ProcessApplication(l) ==
    IF validate(l) # "nil" THEN [ok |-> FALSE, err |-> Errorf(validate(l))]
    ELSE IF ~isDebtToIncomeRatioAcceptable(l) THEN [ok |-> FALSE, err |-> "nil"]
    ELSE IF ~isCreditScoreAcceptable(l) THEN [ok |-> FALSE, err |-> "nil"]
    ELSE IF ~isPaymentAffordable(l, calculateMonthlyPayment(l)) THEN [ok |-> FALSE, err |-> "nil"]
    ELSE [ok |-> TRUE, err |-> "nil"]

Result(op, r) == [op |-> op, ok |-> r.ok, err |-> r.err]

App_proc ==
    /\ ares' = Result("proc", proc(app))
    /\ UNCHANGED <<lessonVars, cacheVars, httpVars, deferVars, globalVars, leakVars,
                   loanVars, pkg, mpc, mloan, mout, app>>

App_ProcessApplication ==
    /\ ares' = Result("ProcessApplication", ProcessApplication(app))
    /\ UNCHANGED <<lessonVars, cacheVars, httpVars, deferVars, globalVars, leakVars,
                   loanVars, pkg, mpc, mloan, mout, app>>

\* LoanApplication{}
ZeroApp == [id |-> "", amt |-> Float(0), dur |-> 0, inc |-> Float(0), cr |-> 0]

NoAppCall == ares = Result("none", [ok |-> FALSE, err |-> "nil"])

\* Loan{}: every field has its zero value.
ZeroLoan == [ID |-> "", Amount |-> Float(0), Status |-> "", InterestRate |-> Float(0),
             CustomerID |-> "", CreatedAt |-> 0]

NoCalls ==
    /\ lcall = Call("none")
    /\ lres = "nil"
    /\ repoLog = <<>>

LoanInit ==
    /\ loan = ZeroLoan /\ NoCalls
    /\ pkg = "refactored" /\ mloan = ZeroLoan /\ MainStart
    /\ app = ZeroApp /\ NoAppCall

OtherInit == HTTPInit /\ DeferInit /\ GlobalInit /\ LeakInit
MoreInit == OtherInit /\ LoanInit

\* ======================================================= specifications
\* The caches under concurrent callers: the goroutines of one behaviour all
\* call Set on the same cache, the Cache or a BetterCache of any ttl (the two
\* caches share nothing).
Init == LessonInit /\ CacheInit /\ MoreInit

\* The lessons, beside the BetterCache that MapLeak builds (ttl: time.Minute).
LessonsInit == Init /\ ttl = Minute /\ starget = "BetterCache"

\* The three lesson functions as written.  Nothing ever sends on ChannelLeak's
\* second channel, so its goroutine's 'case val := <-ch' has no step here.
LessonNext ==
    \/ OwnerStep
    \/ DeadlineFire(ChannelLeak)
    \/ \E w \in Funcs : WorkerStart(w)
    \/ \E w \in Funcs : RecvTick(w)
    \/ \E w \in Funcs : RecvTimer(w)
    \/ \E w \in Funcs : RecvDone(w)
    \/ \E w \in Funcs : TickerFire(w)
    \/ \E w \in Funcs : TimerFire(w)
    \/ \E f \in BadFuncs : BadRead(f)
    \/ HourFire
    \/ BadRecvHour
    \/ BadRecvTimer

LessonSpec == LessonsInit /\ [][LessonNext]_vars

\* MapLeak calls betterCache.Cleanup() once: one sweeper.
CacheNext ==
    \/ \E s \in Setters : SetCall(s)
    \/ \E s \in Setters, k \in Keys, v \in Values : SetLock(s, k, v)
    \/ \E s \in Setters : SetWrite(s)
    \/ \E s \in Setters : SetUnlock(s)
    \/ Cleanup(1)
    \/ SweepTickFire(1)
    \/ SweepRecv(1)
    \/ SweepLock(1)
    \/ SweepNow(1)
    \/ SweepRange(1)
    \/ SweepBody(1)
    \/ SweepUnlock(1)
    \/ AdvanceTime

CacheSpec == Init /\ [][CacheNext]_vars

Spec == CacheSpec

\* Cleanup is a method any holder of the cache may call, and call again.
CleanupNext ==
    \/ \E s \in Setters : SetCall(s)
    \/ \E s \in Setters, k \in Keys, v \in Values : SetLock(s, k, v)
    \/ \E s \in Setters : SetWrite(s)
    \/ \E s \in Setters : SetUnlock(s)
    \/ \E i \in Sweepers : Cleanup(i)
    \/ \E i \in Sweepers : SweepTickFire(i)
    \/ \E i \in Sweepers : SweepRecv(i)
    \/ \E i \in Sweepers : SweepLock(i)
    \/ \E i \in Sweepers : SweepNow(i)
    \/ \E i \in Sweepers : SweepRange(i)
    \/ \E i \in Sweepers : SweepBody(i)
    \/ \E i \in Sweepers : SweepUnlock(i)
    \/ AdvanceTime

CleanupSpec == Init /\ [][CleanupNext]_vars

\* The cache for ever: time never stops, the ticker fires and the sweeper
\* goroutine is scheduled.  Nothing obliges a caller to call Cleanup or Set,
\* nor to finish a Set.  (An action of the cache changes no other variable, so
\* the subscript cacheVars says what vars would.)
FairCacheNext ==
    \/ CacheNext
    \/ RebaseTime

SweeperStep(i) ==
    \/ SweepRecv(i)
    \/ SweepLock(i)
    \/ SweepNow(i)
    \/ SweepRange(i)
    \/ SweepBody(i)
    \/ SweepUnlock(i)

FairCache ==
    /\ Init /\ [][FairCacheNext]_vars
    /\ WF_cacheVars(AdvanceTime \/ RebaseTime)
    /\ WF_cacheVars(SweepTickFire(1))
    /\ WF_cacheVars(SweeperStep(1))

\* The 'Good' goroutines against one shared context that any holder of its
\* CancelFunc may cancel at any time: up to NumWorkers of them, of any of the
\* three kinds, spawned before or after the cancellation.
SharedCtx == GoroutineLeakWithContext

PoolSpawn(w, k, sender) ==
    /\ GoWorker(w, k, SharedCtx, k = TimerLeak, sender)
    /\ UNCHANGED <<cacheVars, moreVars, badVars, ctxVars, opc>>

PoolCancel ==
    /\ Cancel(SharedCtx)
    /\ UNCHANGED <<cacheVars, moreVars, badVars, opc, workerVars>>

PoolNext ==
    \/ \E w \in Workers, k \in Funcs :
          \E sender \in (IF k = ChannelLeak THEN BOOLEAN ELSE {FALSE}) :
             PoolSpawn(w, k, sender)
    \/ PoolCancel
    \/ \E w \in Workers : WorkerStep(w)
    \/ \E w \in Workers : TickerFire(w)
    \/ \E w \in Workers : TimerFire(w)

PoolSpec == LessonsInit /\ [][PoolNext]_vars

\* A runnable goroutine is eventually scheduled, and a select whose Done case
\* stays ready eventually takes it.
FairPool ==
    /\ PoolSpec
    /\ \A w \in Workers :
          /\ WF_lessonVars(WorkerStart(w))
          /\ WF_lessonVars(RecvDone(w))

\* The lesson functions under a fair scheduler: every step of a function or of
\* a goroutine that stays possible is eventually taken, and time passes.
FairLesson ==
    /\ LessonSpec
    /\ WF_vars(GLWC_Ctx) /\ WF_vars(GLWC_Go)
    /\ WF_vars(CL_Ctx) /\ WF_vars(CL_Go) /\ WF_vars(CL_Return)
    /\ WF_vars(TL_Ctx) /\ WF_vars(TL_Go)
    /\ WF_vars(CL_BadGo) /\ WF_vars(TL_BadGo)
    /\ WF_vars(HourFire) /\ WF_vars(BadRecvHour) /\ WF_vars(BadRecvTimer)
    /\ \A f \in BadFuncs : WF_vars(BadRead(f))
    /\ WF_vars(DeadlineFire(ChannelLeak))
    /\ \A w \in Funcs :
          /\ WF_vars(WorkerStart(w))
          /\ WF_vars(RecvTick(w))
          /\ WF_vars(RecvTimer(w))
          /\ WF_vars(RecvDone(w))
          /\ WF_vars(TickerFire(w))
          /\ WF_vars(TimerFire(w))

\* HTTPBodyLeak and DeferInLoopLeak, each called once, by different goroutines.
IONext ==
    \/ \E ok \in BOOLEAN : HTTP_Get1(ok)
    \/ \E ok \in BOOLEAN : HTTP_Read1(ok)
    \/ \E ok \in BOOLEAN : HTTP_Get2(ok)
    \/ \E ok \in BOOLEAN : HTTP_Read2(ok)
    \/ DL_Loop
    \/ \E ok \in BOOLEAN : DL_Open(ok)
    \/ \E ok \in BOOLEAN : DL_Write(ok)
    \/ DL_Close

IOSpec == LessonsInit /\ [][IONext]_vars

\* The global cache: callers of SetGlobalCache and GetGlobalCache, and cleanup.
GlobalNext ==
    \/ \E k \in Keys : SetGlobalCache(k)
    \/ \E k \in Keys : GetGlobalCache(k)
    \/ GCleanup
    \/ GTickFire
    \/ GSweepRecv
    \/ \E k \in Keys : GSweepVisit(k)
    \/ GSweepEnd

GlobalSpec == LessonsInit /\ [][GlobalNext]_vars

\* The same with cleanup called, the ticker firing and the goroutine scheduled.
FairGlobal ==
    /\ GlobalSpec
    /\ WF_vars(GCleanup)
    /\ WF_vars(GTickFire)
    /\ WF_vars(GSweepRecv)
    /\ WF_vars(\E k \in Keys : GSweepVisit(k))
    /\ WF_vars(GSweepEnd)

\* GoroutineLeak and ChannelLeak, each called once: the 'Bad' goroutines beside
\* ChannelLeak's second goroutine.
LeakNext ==
    \/ GL_Go
    \/ GL_Start
    \/ GL_TickerFire
    \/ GL_RecvTick
    \/ CL_BadGo
    \/ BadRead(ChannelLeak)
    \/ CL_Ctx
    \/ CL_Go
    \/ CL_Return
    \/ DeadlineFire(ChannelLeak)
    \/ RecvDone(ChannelLeak)

LeakSpec == LessonsInit /\ [][LeakNext]_vars

\* The same under a fair scheduler, with the ticker firing.
FairLeak ==
    /\ LeakSpec
    /\ WF_leakVars(GL_Go)
    /\ WF_leakVars(GL_Start)
    /\ WF_leakVars(GL_TickerFire)
    /\ WF_leakVars(GL_RecvTick)

\* The loan package: any sequence of calls on one loan, of any field values.
LoanNext ==
    \/ Loan_Validate
    \/ Loan_Approve
    \/ Loan_CalculateInterest
    \/ Loan_OrigApprove
    \/ Loan_OrigCalculateInterest
    \/ \E c \in CallerCtxs, e \in {"nil", ErrSave} : ProcessLoanApplication(c, e)

LoansInit ==
    /\ LessonInit /\ CacheInit /\ ttl = Minute /\ starget = "BetterCache" /\ OtherInit
    /\ loan \in Loans /\ NoCalls
    /\ pkg = "refactored" /\ mloan = ZeroLoan /\ MainStart
    /\ app = ZeroApp /\ NoAppCall

LoanSpec == LoansInit /\ [][LoanNext]_vars

\* main, built with either version of the loan package; the package's other
\* Loan is of any field values and nothing is called on it.
MainNext ==
    \/ Main_New
    \/ Main_Approve
    \/ Main_PrintStatus
    \/ Main_PrintInterest

MainInit ==
    /\ LessonInit /\ CacheInit /\ ttl = Minute /\ starget = "BetterCache" /\ OtherInit
    /\ loan \in Loans /\ NoCalls
    /\ pkg \in Packages /\ mloan = ZeroLoan /\ MainStart
    /\ app = ZeroApp /\ NoAppCall

MainSpec == MainInit /\ [][MainNext]_vars

\* The slides' application, of any field values, processed by both versions.
AppNext ==
    \/ App_proc
    \/ App_ProcessApplication

AppInit ==
    /\ LessonInit /\ CacheInit /\ ttl = Minute /\ starget = "BetterCache" /\ OtherInit
    /\ loan = ZeroLoan /\ NoCalls
    /\ pkg = "refactored" /\ mloan = ZeroLoan /\ MainStart
    /\ app \in Apps /\ NoAppCall

AppSpec == AppInit /\ [][AppNext]_vars

\* ================================================================ claims
Alive(w) == wpc[w] \in {"start", "select"}

\* C1: once the shared context is cancelled, every 'Good' goroutine observing
\* it (ticker, channel or timer kind, however many there are, whatever tick,
\* timer fire or sender is pending) eventually returns.
C1_CancelledWorkersReturn ==
    \A w \in Workers : (ctxDone[SharedCtx] /\ Alive(w)) ~> (wpc[w] = "returned")

\* Goroutines of different kinds have all returned after the cancellation
\* without printing, each leaving its tick, timer fire or sender behind.
C1_Witness ==
    /\ ctxDone[SharedCtx]
    /\ \A w \in Workers :
          /\ wpc[w] = "returned" /\ wctx[w] = SharedCtx /\ logged[w] = 0
          /\ tickC[w] = 1 \/ timerC[w] = 1 \/ chSender[w]
    /\ \E w1, w2 \in Workers : wkind[w1] # wkind[w2]

\* C2 (as claimed): GoroutineLeakWithContext and TimerLeak reach their deferred
\* cancel(), so their contexts are eventually cancelled and their goroutines
\* eventually return.
C2_OwnersRelease ==
    <>(/\ ctxDone[GoroutineLeakWithContext]
       /\ ctxDone[TimerLeak]
       /\ wpc[GoroutineLeakWithContext] = "returned"
       /\ wpc[TimerLeak] = "returned")

\* C3: whenever the ticker goroutine has returned its ticker is stopped, and a
\* returned goroutine takes no further step: it stays returned, receives no
\* tick and logs nothing.
C3_ReturnedWorkerIsFinal ==
    [][\A w \in Workers :
          /\ (wkind'[w] = GoroutineLeakWithContext /\ wpc'[w] = "returned") => ~tickerOn'[w]
          /\ wpc[w] = "returned" =>
                /\ wpc'[w] = "returned"
                /\ logged'[w] = logged[w]
                /\ tickC'[w] = tickC[w]
                /\ ~tickerOn'[w]]_vars

\* A ticker goroutine that handled ticks has returned with a tick still buffered.
C3_Witness ==
    \E w \in Workers :
        /\ wkind[w] = GoroutineLeakWithContext
        /\ wpc[w] = "returned"
        /\ logged[w] = MaxLogs
        /\ tickC[w] = 1
        /\ ~tickerOn[w]

\* C4 (as claimed): every call of Cleanup leaves at most one live sweeper
\* goroutine, and one running ticker, per cache.  (No sweeper ever ends: the
\* model has no position after its loop, as the code has no way out of it.)
C4_OneSweeperPerCache ==
    Cardinality({i \in Sweepers : swpc[i] # "none"}) <= 1

\* C5 (as claimed): with Cleanup running since before the write (a pass that
\* read a time no later than the entry's timestamp has ended), no entry is in
\* items at a time >= timestamp + ttl + Interval.
C5_AbsentAfterTtlPlusInterval ==
    \A k \in DOMAIN items :
        (lastPass >= 0 /\ lastPass <= items[k].timestamp)
            => now < items[k].timestamp + ttl + Interval

\* C5 (amended): once the loop of a sweep pass that read the time s has ended,
\* no entry with s - timestamp > ttl is in items, then and afterwards; so an
\* entry written at t0 and not written again is gone once a pass that read a
\* time later than t0 + ttl has ended.
C5_NoExpiredAfterPass ==
    lastPass >= 0 => \A k \in DOMAIN items : lastPass - items[k].timestamp <= ttl

\* A pass has just ended that found two entries, dropped the one written at 0
\* and kept the one written since.
C5_Witness ==
    /\ swpc[1] = "Unlock"
    /\ lastPass = swnow[1]
    /\ DOMAIN snap = Keys
    /\ \E k \in Keys :
          /\ DOMAIN items = {k}
          /\ snap[k].timestamp > 0
          /\ \A x \in Keys \ {k} : snap[x].timestamp = 0 /\ lastPass > ttl

\* C6: when the loop of a pass ends, items holds exactly the entries the pass
\* found whose age, against the now the pass read, is at most ttl, each with
\* its value and timestamp as found; during the pass no key is added.
C6_PassDeletesExactlyExpired ==
    \A i \in Sweepers :
        /\ swpc[i] \in {"range", "body", "Unlock"} => DOMAIN items \subseteq DOMAIN snap
        /\ swpc[i] = "Unlock" =>
              /\ DOMAIN items = {k \in DOMAIN snap : swnow[i] - snap[k].timestamp <= ttl}
              /\ \A k \in DOMAIN items : items[k] = snap[k]

\* A pass has ended that kept an entry exactly ttl old and dropped one a minute older.
C6_Witness ==
    /\ swpc[1] = "Unlock"
    /\ \E k1, k2 \in DOMAIN snap :
          /\ swnow[1] - snap[k1].timestamp = ttl
          /\ k1 \in DOMAIN items
          /\ swnow[1] - snap[k2].timestamp = ttl + 1
          /\ k2 \notin DOMAIN items

InSet(s) == spc[s] \in {"write", "Unlock"}
InPass(i) == swpc[i] \in {"now", "range", "body", "Unlock"}

\* C7: a goroutine that is at a read or write of a cache's items holds that
\* cache's lock, and whenever the lock is free the map is what the Sets and
\* passes made so far give when run one after another in the order they took
\* the lock.
C7_LockedAndSerializable ==
    /\ \A s \in Setters :
          InSet(s) => (IF starget = "BetterCache" THEN mu ELSE cmu) = SetterId(s)
    /\ \A i \in Sweepers : InPass(i) => mu = SweeperId(i)
    /\ mu = Unlocked => items = serial
    /\ cmu = Unlocked => plain = cserial

\* Two Sets wait for the lock while a pass that has already dropped an entry
\* is looking at the next one.
C7_Witness ==
    /\ \A s \in Setters : spc[s] = "Lock"
    /\ swpc[1] = "body"
    /\ Cardinality(DOMAIN snap) = 2
    /\ Cardinality(DOMAIN items) = 1

\* C8: a sweeper that waits for a tick, or for the lock, does not hold the
\* lock, so with no pass and no other Set in progress the lock is free; the
\* sweeper gets to c.Lock() only by receiving a tick, and takes the lock only
\* from there.
C8_LockOnlyDuringPass ==
    /\ [](\A i \in Sweepers : ~InPass(i) => mu # SweeperId(i))
    /\ []((\A i \in Sweepers : ~InPass(i)) /\ (\A s \in Setters : ~InSet(s))
             => mu = Unlocked)
    /\ [][\A i \in Sweepers :
             /\ (swpc'[i] = "Lock" /\ swpc[i] # "Lock")
                   => (swpc[i] = "recv" /\ swtickC[i] = 1 /\ swtickC'[i] = 0)
             /\ (mu' = SweeperId(i) /\ mu # SweeperId(i))
                   => (swpc[i] = "Lock" /\ mu = Unlocked)]_vars

\* After a pass, the sweeper waits for its next tick while a Set holds the lock.
C8_Witness ==
    /\ swpc[1] = "recv"
    /\ swtickC[1] = 0
    /\ lastPass >= 0
    /\ starget = "BetterCache"
    /\ \E s \in Setters : spc[s] = "write" /\ mu = SetterId(s)

\* C9: the write of BetterCache.Set(k, v) makes items[k] the item (v, now),
\* present before or not, adds no other key and changes no other entry; a
\* goroutine that is not inside Set does not hold the lock.
C9_SetFrame ==
    /\ [][\A s \in Setters :
             (starget = "BetterCache" /\ spc[s] = "write" /\ spc'[s] = "Unlock") =>
                 /\ DOMAIN items' = DOMAIN items \cup {skey[s]}
                 /\ items'[skey[s]].value = sval[s]
                 /\ items'[skey[s]].timestamp = now
                 /\ \A x \in DOMAIN items \ {skey[s]} : items'[x] = items[x]]_vars
    /\ [](\A s \in Setters : ~InSet(s) => (mu # SetterId(s) /\ cmu # SetterId(s)))

\* A Set has just replaced an older entry of its key, with another value and
\* the current time, beside an older entry of the other key.
C9_Witness ==
    \E s \in Setters :
        /\ starget = "BetterCache"
        /\ spc[s] = "Unlock"
        /\ shad[s]
        /\ items[skey[s]] = CacheItem("y", now)
        /\ \E x \in DOMAIN items : x # skey[s] /\ items[x].timestamp < now

SetsStopped == \A s \in Setters : spc[s] = "idle"

\* C10 (as claimed): whatever BetterCache it is, once Set calls stop it
\* eventually is empty and stays empty.
C10_EveryCacheEmpties ==
    <>[]SetsStopped => <>[](items = NoItems)

\* C10 (amended): a BetterCache on which Cleanup has been called is, once Set
\* calls stop, eventually empty, and stays empty.
C10_SweptCacheEmpties ==
    <>[](SetsStopped /\ swpc[1] # "none") => <>[](items = NoItems)

\* With no Set in progress, a pass has ended that dropped both entries it found.
C10_Witness ==
    /\ SetsStopped
    /\ swpc[1] = "Unlock"
    /\ DOMAIN snap = Keys
    /\ items = NoItems

\* C11 (as claimed): entries stored by SetGlobalCache do not stay for the whole
\* program lifetime: SetGlobalCache is called finitely often, so the periodic
\* cleanup eventually leaves betterCache empty for good (unless the program
\* has died of a panic).
C11_CleanupEmptiesStore ==
    <>[](gstore = {} \/ Panicked)

\* C12 (as claimed): GetGlobalCache of a key that is not stored returns nil.
C12_AbsentReadReturnsNil ==
    (gres # "none" /\ gkey \notin gstore) => gres = "nil"

\* C13: DeferInLoopLeak never has more than one file handle open; a handle
\* opened in an iteration is closed before the next iteration begins, also
\* after a failed write; an iteration whose open fails closes nothing; and the
\* function returns after all its iterations with no handle open.
C13_OneHandleAtATime ==
    /\ [](dopen <= 1 /\ dopen = dopened - dclosed)
    /\ [](dpc \in {"loop", "open", "returned"} => dopen = 0)
    /\ [](dpc = "returned" => di = MaxIter)
    /\ [][(dpc = "open" /\ dpc' = "loop") => (dclosed' = dclosed /\ dopen' = dopen)]_vars

\* DeferInLoopLeak has returned after iterations of all three kinds: a failed
\* open, a failed write, a handle opened and closed.
C13_Witness ==
    /\ dpc = "returned"
    /\ dfailed
    /\ dwfailed
    /\ dopened = MaxIter - 1
    /\ dclosed = dopened

\* C14: the Body of the second response is closed exactly once by the time
\* HTTPBodyLeak returns, whether the read succeeded or failed, never twice,
\* and no Close is made on it when the second request failed.
C14_SecondBodyClosedOnce ==
    /\ hcloses[2] <= 1
    /\ hbody[2] = "none" => hcloses[2] = 0
    /\ (hpc = "returned" /\ hbody[2] # "none") => (hbody[2] = "closed" /\ hcloses[2] = 1)

\* HTTPBodyLeak has returned the error of the second read with the Body closed.
C14_Witness ==
    /\ hpc = "returned"
    /\ hret = ErrOf(4)
    /\ hbody[2] = "closed"
    /\ hcloses[2] = 1

AllOk == \A n \in 1..Len(hlog) : hlog[n]

\* C15: HTTPBodyLeak makes no call after a failed one; it returns the error of
\* the call that failed, and nil exactly when all four calls succeeded.
C15_FailurePropagatesAtOnce ==
    /\ \A n \in 1..(Len(hlog) - 1) : hlog[n]
    /\ hpc # "returned" => (hret = "none" /\ AllOk)
    /\ hpc = "returned" =>
          IF AllOk THEN Len(hlog) = 4 /\ hret = "nil"
                   ELSE hret = ErrOf(Len(hlog))

\* The first read failed: its error is returned and no second request is made.
C15_Witness ==
    /\ hpc = "returned"
    /\ hlog = <<TRUE, FALSE>>
    /\ hret = ErrOf(2)
    /\ hbody[2] = "none"

\* C16 (as claimed): after an os.OpenFile failure DeferInLoopLeak starts no
\* further iteration.
C16_OpenFailureEndsLoop ==
    dfailed => dpc \notin {"open", "write", "close"}

C20_FirstGoroutineKeepsItsObject ==
    \A f \in BadFuncs : bobj[f] = "first"

\* C21: the 'Bad' goroutines never return.  The first goroutine of ChannelLeak
\* stays at its receive, nothing ever sending on the channel it reads (either
\* of the two); the goroutine of GoroutineLeak never returns and never stops its
\* ticker, each tick it handles appends exactly one element to leakSlice and
\* nothing else changes leakSlice, and leakSlice keeps growing (as far as it is
\* followed).
C21_BadWorkersNeverEnd ==
    /\ [](bpc[ChannelLeak] # "returned" /\ ~chSender[ChannelLeak])
    /\ [](glpc # "returned" /\ (glpc = "select" => glTickerOn))
    /\ [][(glTickC' < glTickC) <=> (leakLen' = leakLen + 1)]_vars
    /\ [][leakLen' = leakLen \/ leakLen' = leakLen + 1]_vars
    /\ \A n \in 0..(MaxLeak - 1) : (leakLen = n) ~> (leakLen = n + 1)

\* ChannelLeak has returned and its second goroutine with it, the first one is
\* still at its receive, and GoroutineLeak's goroutine has handled ticks and
\* waits for the next.
C21_Witness ==
    /\ opc[ChannelLeak] = "returned" /\ wpc[ChannelLeak] = "returned"
    /\ bpc[ChannelLeak] = "wait"
    /\ glpc = "select" /\ glTickerOn /\ leakLen = MaxLeak /\ glTickC = 1

\* C22 (as claimed): once the shared context is cancelled, a goroutine running
\* GoroutineLeakWithContext's closure handles no further tick: it prints no
\* further "Working...", also when a tick is ready together with Done.
C22_NoTickAfterCancel ==
    [][\A w \in Workers :
          (ctxDone[SharedCtx] /\ wkind[w] = GoroutineLeakWithContext /\ wpc[w] = "select")
             => (logged'[w] = logged[w] /\ tickC'[w] >= tickC[w])]_vars

\* C23 (as claimed): in TimerLeak the fire of the one-second timer is received
\* by the second ('Good') goroutine only, which prints "Good:Done!" for it, once
\* at most; that goroutine then stays at its select and returns only when the
\* context is cancelled.
C23_GoodAloneReceivesFire ==
    /\ [][timerC'[TimerLeak] < timerC[TimerLeak]
            => /\ logged'[TimerLeak] = logged[TimerLeak] + 1
               /\ wpc'[TimerLeak] = "select"
               /\ bpc' = bpc]_vars
    /\ [](logged[TimerLeak] <= 1)
    /\ [](wpc[TimerLeak] = "returned" => ctxDone[TimerLeak])

\* C24 (as claimed): Validate returns nil exactly when Amount > 0, CustomerID is
\* not empty and InterestRate >= 0, and otherwise the error of the first of the
\* three checks that fails, in that order.
C24_ValidateNilIffAllThree ==
    lcall.op = "Validate" =>
       lres = (IF ~Gt(loan.Amount, Float(0)) THEN ErrAmount
               ELSE IF loan.CustomerID = "" THEN ErrCustomer
               ELSE IF ~Ge(loan.InterestRate, Float(0)) THEN ErrRate
               ELSE "nil")

C26_SaveOnceIffValid ==
    /\ [][lcall'.op = "ProcessLoanApplication" =>
             /\ loan' = loan
             /\ IF Validate(loan) = "nil"
                THEN /\ Len(repoLog') = Len(repoLog) + 1
                     /\ SubSeq(repoLog', 1, Len(repoLog)) = repoLog
                     /\ repoLog'[Len(repoLog')].ctx = lcall'.ctx
                     /\ repoLog'[Len(repoLog')].loan = loan
                     /\ lres' = repoLog'[Len(repoLog')].ret
                ELSE /\ repoLog' = repoLog
                     /\ lres' = Validate(loan)]_vars
    /\ [](\A n \in 1..Len(repoLog) : repoLog[n].op = "Save")

\* A valid loan was processed twice, under different contexts: Save's error came
\* back the first time and nil the second.
C26_Witness ==
    /\ lcall = [op |-> "ProcessLoanApplication", ctx |-> "ctx2"]
    /\ Len(repoLog) = 2
    /\ repoLog[1].ret = ErrSave /\ repoLog[2].ret = "nil" /\ lres = "nil"
    /\ repoLog[1].ctx = "ctx1" /\ repoLog[2].ctx = "ctx2"

\* C27 (as claimed): when main returns, the first line it printed is "approved"
\* and the second is 12% of the amount of 10000.
C27_MainPrintsApproved ==
    mpc = "exit" =>
       /\ mloan.Status = StatusApproved
       /\ mout = <<StatusApproved, Mul(Float(10000), LowRate)>>

\* C28: no call takes a loan out of "approved", and the only Status a call ever
\* writes is "approved"; Approve on a loan that passes Validate succeeds
\* whatever the Status was, and approving twice gives what approving once gives.
C28_ApprovedAbsorbing ==
    /\ [][loan.Status = StatusApproved => loan'.Status = StatusApproved]_vars
    /\ [][loan'.Status # loan.Status => loan'.Status = StatusApproved]_vars
    /\ [][(lcall'.op = "Approve" /\ Validate(loan) = "nil")
             => (lres' = "nil" /\ loan'.Status = StatusApproved)]_vars
    /\ [](Approve(Approve(loan).loan) = Approve(loan))

\* A rejected loan was saved, approved, saved again as approved, and approved
\* once more.
C28_Witness ==
    /\ Len(repoLog) = 2
    /\ repoLog[1].loan.Status = StatusRejected
    /\ repoLog[2].loan.Status = StatusApproved
    /\ lcall.op = "Approve" /\ lres = "nil"
    /\ loan.Status = StatusApproved

\* C29: on every loan the original and the refactored CalculateInterest return
\* the same value, Amount x 0.15 when Amount > 10000 and Amount x 0.12 otherwise,
\* and a call of either leaves the loan as it was; on every loan that passes
\* Validate the original and the refactored Approve both return nil and leave
\* the same loan, whose Status is "approved".
C29_RefactoringPreserves ==
    /\ [](/\ CalculateInterest(loan) = OrigCalculateInterest(loan)
          /\ CalculateInterest(loan) =
                Mul(loan.Amount, IF Gt(loan.Amount, Float(HighAmount)) THEN HighRate ELSE LowRate))
    /\ [][lcall'.op \in {"CalculateInterest", "OrigCalculateInterest"}
            => (loan' = loan /\ lres' = OrigCalculateInterest(loan))]_vars
    /\ [](Validate(loan) = "nil" => Approve(loan) = OrigApprove(loan))
    /\ [][(lcall'.op \in {"Approve", "OrigApprove"} /\ Validate(loan) = "nil")
            => (lres' = "nil" /\ loan' = [loan EXCEPT !.Status = StatusApproved])]_vars

\* The refactored CalculateInterest was called on a loan of exactly 10000 and
\* returned the lower rate's interest, which is what the original returns.
C29_Witness ==
    /\ lcall.op = "CalculateInterest"
    /\ loan.Amount = Float(HighAmount)
    /\ lres = Mul(Float(HighAmount), LowRate)
    /\ lres = OrigCalculateInterest(loan)

\* C30 (as claimed): on an application that passes validate, ProcessApplication
\* returns the decision that proc returns on the same field values, with a nil
\* error; it returns an error exactly when validate fails, and the decision is
\* then false.
C30_SameDecision ==
    ares.op = "ProcessApplication" =>
       /\ (ares.err # "nil") <=> (validate(app) # "nil")
       /\ ares.err # "nil" => ~ares.ok
       /\ validate(app) = "nil" => ares.ok = proc(app).ok
====
